---- MODULE Spec2Model ----
(***************************************************************************)
(* Student management REST service (Gin handlers over GORM on SQLite).     *)
(* The state is the students table, SQLite's AUTOINCREMENT counter, the    *)
(* wall clock and the bag of handlers that sit between two database calls. *)
(* Each database call of a handler is one atomic step; UpdateStudent and   *)
(* DeleteStudent make two calls (First, then the write), so other requests *)
(* may run between them.  deletedOK is a history variable.  req follows one *)
(* request through the statements of its handler.                          *)
(***************************************************************************)
EXTENDS Integers, Sequences, FiniteSets, Bags, TLC

VARIABLES students, sqlite_sequence, now, inflight, deletedOK, req

vars == <<students, sqlite_sequence, now, inflight, deletedOK, req>>

----------------------------------------------------------------------------
(* Bounds of the model *)

\* handlers that may sit between their First call and their write
MaxInflight == 2
\* last value of the wall clock
MaxClock == 2

----------------------------------------------------------------------------
(* Values *)

\* strings are sequences of one-character strings
NoStr == <<>>
ZeroTime == 0
Max(a, b) == IF a >= b THEN a ELSE b

\* ASCII case folding as done by SQLite's built-in LIKE, on the letters the
\* model uses
Lower(c) ==
  CASE c = "A" -> "a"
    [] c = "B" -> "b"
    [] c = "C" -> "c"
    [] c = "E" -> "e"
    [] c = "S" -> "s"
    [] OTHER -> c

\* SQLite LIKE: % matches any run of characters, _ matches any one character,
\* every other character matches itself up to ASCII case.
RECURSIVE Like(_, _)
Like(p, s) ==
  IF p = <<>> THEN s = <<>>
  ELSE IF Head(p) = "%"
       THEN Like(Tail(p), s) \/ (s # <<>> /\ Like(p, Tail(s)))
       ELSE /\ s # <<>>
            /\ (Head(p) = "_" \/ Lower(Head(p)) = Lower(Head(s)))
            /\ Like(Tail(p), Tail(s))

\* the validator's "email" rule on the modelled alphabet: one @ with a
\* non-empty local part and a non-empty domain
IsEmail(e) ==
  /\ Cardinality({i \in 1..Len(e) : e[i] = "@"}) = 1
  /\ e[1] # "@"
  /\ e[Len(e)] # "@"

\* the two accepted gender literals of the oneof rule (written in pinyin)
Genders == {"nan", "nv"}

----------------------------------------------------------------------------
(* models.Student *)

\* the gorm size tags of the string columns, the limits the README documents
SizeOf == [Name |-> 100, Phone |-> 20, Major |-> 100, Grade |-> 50]

\* the zero value of the struct
ZeroStudent ==
  [ID |-> 0, Name |-> NoStr, Age |-> 0, Gender |-> "", Email |-> NoStr,
   Phone |-> NoStr, Major |-> NoStr, Grade |-> NoStr,
   CreatedAt |-> ZeroTime, UpdatedAt |-> ZeroTime, DeletedAt |-> ZeroTime]

\* json.Unmarshal of a request body into a zero Student: DeletedAt has the
\* tag json:"-" and is never read from the body
FromJSON(body) ==
  [ZeroStudent EXCEPT !.ID = body.ID, !.Name = body.Name, !.Age = body.Age,
                      !.Gender = body.Gender, !.Email = body.Email,
                      !.Phone = body.Phone, !.Major = body.Major,
                      !.Grade = body.Grade, !.CreatedAt = body.CreatedAt,
                      !.UpdatedAt = body.UpdatedAt]

\* json.Marshal of a Student: every field but DeletedAt
ToJSON(s) ==
  [ID |-> s.ID, Name |-> s.Name, Age |-> s.Age, Gender |-> s.Gender,
   Email |-> s.Email, Phone |-> s.Phone, Major |-> s.Major, Grade |-> s.Grade,
   CreatedAt |-> s.CreatedAt, UpdatedAt |-> s.UpdatedAt]

\* the binding tags with the bounds of age read as exclusive
BindingOKAgeExclusive(s) ==
  /\ s.Name # NoStr
  /\ s.Age # 0 /\ s.Age > 1 /\ s.Age < 150
  /\ s.Gender # "" /\ s.Gender \in Genders
  /\ s.Email # NoStr /\ IsEmail(s.Email)
  /\ s.Phone # NoStr
  /\ s.Major # NoStr
  /\ s.Grade # NoStr

\* the binding tags without the shape rule on email
BindingOKAnyEmail(s) ==
  /\ s.Name # NoStr
  /\ s.Age # 0 /\ s.Age >= 1 /\ s.Age <= 150
  /\ s.Gender # "" /\ s.Gender \in Genders
  /\ s.Email # NoStr
  /\ s.Phone # NoStr
  /\ s.Major # NoStr
  /\ s.Grade # NoStr

\* the binding tags of the struct, as checked by ShouldBindJSON
BindingOK(s) ==
  /\ s.Name # NoStr
  /\ s.Age # 0 /\ s.Age >= 1 /\ s.Age <= 150
  /\ s.Gender # "" /\ s.Gender \in Genders
  /\ s.Email # NoStr /\ IsEmail(s.Email)
  /\ s.Phone # NoStr
  /\ s.Major # NoStr
  /\ s.Grade # NoStr

ShouldBindJSON(body) == BindingOK(FromJSON(body))

----------------------------------------------------------------------------
(* The students table: GORM statements as SQLite executes them.  The table *)
(* is the sequence of its rows in insertion order; a row is never removed. *)

Rows(tbl) == {tbl[i] : i \in 1..Len(tbl)}

\* a table whose queries do not look at deleted_at
LiveAlways(r) == r.DeletedAt = r.DeletedAt

\* gorm.DeletedAt: a row is visible to queries while deleted_at IS NULL
Live(r) == r.DeletedAt = ZeroTime

MaxRowid(tbl) ==
  IF tbl = <<>> THEN 0
  ELSE CHOOSE m \in {r.ID : r \in Rows(tbl)} : \A r \in Rows(tbl) : r.ID <= m

\* INTEGER PRIMARY KEY AUTOINCREMENT: one more than the largest rowid the
\* table holds or sqlite_sequence remembers
NextRowid(tbl, seq) == Max(MaxRowid(tbl), seq) + 1

\* rows in ascending rowid order, as a table scan returns them
RECURSIVE SortByID(_)
SortByID(S) ==
  IF S = {} THEN <<>>
  ELSE LET r == CHOOSE x \in S : \A y \in S : x.ID <= y.ID
       IN  <<r>> \o SortByID(S \ {r})

\* db.First(&student) without the primary key: the first live row
FirstNoKey(tbl, id) ==
  CHOOSE r \in Rows(tbl) : Live(r) /\ \A x \in Rows(tbl) : Live(x) => r.ID <= x.ID

\* db.First(&student, id): the live row with that primary key
FirstFound(tbl, id) == \E r \in Rows(tbl) : r.ID = id /\ Live(r)
First(tbl, id) == CHOOSE r \in Rows(tbl) : r.ID = id /\ Live(r)

\* db.Create(&student): a zero ID is assigned by AUTOINCREMENT, a non-zero
\* one is inserted as given; zero CreatedAt / UpdatedAt are set to the
\* current time; the primary key and the unique index on email cover every
\* row of the table, soft-deleted ones included.
CreateRow(tbl, seq, s, t) ==
  [s EXCEPT !.ID = IF s.ID = 0 THEN NextRowid(tbl, seq) ELSE s.ID,
            !.CreatedAt = IF s.CreatedAt = ZeroTime THEN t ELSE s.CreatedAt,
            !.UpdatedAt = IF s.UpdatedAt = ZeroTime THEN t ELSE s.UpdatedAt]

\* the table without the unique index on email
UniqueViolationNoEmailIndex(tbl, skip, row) ==
  \E j \in 1..Len(tbl) : j # skip /\ tbl[j].ID = row.ID

\* the table without its primary key constraint
UniqueViolationNoPrimaryKey(tbl, skip, row) ==
  \E j \in 1..Len(tbl) : j # skip /\ tbl[j].Email = row.Email

UniqueViolation(tbl, skip, row) ==
  \E j \in 1..Len(tbl) :
     j # skip /\ (tbl[j].ID = row.ID \/ tbl[j].Email = row.Email)

Create(tbl, seq, s, t) ==
  LET row == CreateRow(tbl, seq, s, t)
  IN  IF UniqueViolation(tbl, 0, row)
      THEN [err |-> TRUE, tbl |-> tbl, seq |-> seq, student |-> s]
      ELSE [err |-> FALSE, tbl |-> Append(tbl, row),
            seq |-> Max(seq, row.ID), student |-> row]

\* the assignments db.Model(&student).Updates(updateData) makes from a
\* struct passed by value: every non-zero field of updateData, the primary
\* key included, and updated_at = now
Assign(r, u, t) ==
  [r EXCEPT !.ID = IF u.ID # 0 THEN u.ID ELSE @,
            !.Name = IF u.Name # NoStr THEN u.Name ELSE @,
            !.Age = IF u.Age # 0 THEN u.Age ELSE @,
            !.Gender = IF u.Gender # "" THEN u.Gender ELSE @,
            !.Email = IF u.Email # NoStr THEN u.Email ELSE @,
            !.Phone = IF u.Phone # NoStr THEN u.Phone ELSE @,
            !.Major = IF u.Major # NoStr THEN u.Major ELSE @,
            !.Grade = IF u.Grade # NoStr THEN u.Grade ELSE @,
            !.CreatedAt = IF u.CreatedAt # ZeroTime THEN u.CreatedAt ELSE @,
            !.UpdatedAt = t]

\* the rows an UPDATE ... WHERE id = ? touches
TargetWithDeleted(tbl, id) == {i \in 1..Len(tbl) : tbl[i].ID = id}

\* the rows an UPDATE ... WHERE deleted_at IS NULL touches
TargetNoKey(tbl, id) == {i \in 1..Len(tbl) : Live(tbl[i])}

\* the rows an UPDATE ... WHERE id = ? AND deleted_at IS NULL touches
Target(tbl, id) == {i \in 1..Len(tbl) : tbl[i].ID = id /\ Live(tbl[i])}

\* db.Model(&student).Updates(updateData): no row matching is no error
Updates(tbl, student, u, t) ==
  LET hit == Target(tbl, student.ID)
      bad == \E i \in hit : UniqueViolation(tbl, i, Assign(tbl[i], u, t))
  IN  [err |-> bad,
       tbl |-> IF bad THEN tbl
               ELSE [i \in 1..Len(tbl) |->
                       IF i \in hit THEN Assign(tbl[i], u, t) ELSE tbl[i]],
       student |-> Assign(student, u, t)]

\* db.Delete(&student) on a model with gorm.DeletedAt: a soft delete
Delete(tbl, student, t) ==
  [i \in 1..Len(tbl) |->
     IF i \in Target(tbl, student.ID)
     THEN [tbl[i] EXCEPT !.DeletedAt = t] ELSE tbl[i]]

\* the list query without its deleted_at clause
FindAllUnscoped(tbl) == SortByID(Rows(tbl))

\* db.Where("deleted_at IS NULL").Find(&students)
FindAll(tbl) == SortByID({r \in Rows(tbl) : Live(r)})

\* c.Query(key): the value of the URL parameter, "" when the URL has none.
\* A URL parameter is [set |-> whether the URL carries it, val |-> its text].
cQuery(url, key) == IF url[key].set THEN url[key].val ELSE NoStr

\* the WHERE clauses appended without looking whether a parameter is empty
SearchWhereAlways(r, name, major, grade) ==
  /\ Live(r)
  /\ Like(<<"%">> \o name \o <<"%">>, r.Name)
  /\ Like(<<"%">> \o major \o <<"%">>, r.Major)
  /\ r.Grade = grade

\* the WHERE clauses SearchStudents appends for the non-empty parameters
SearchWhere(r, name, major, grade) ==
  /\ Live(r)
  /\ (name # NoStr => Like(<<"%">> \o name \o <<"%">>, r.Name))
  /\ (major # NoStr => Like(<<"%">> \o major \o <<"%">>, r.Major))
  /\ (grade # NoStr => r.Grade = grade)

Search(tbl, name, major, grade) ==
  SortByID({r \in Rows(tbl) : SearchWhere(r, name, major, grade)})

\* strconv.ParseUint(c.Param("id"), 10, 32): the path parameter is a
\* sequence of characters; it must be a non-empty run of decimal digits
\* whose value fits 32 bits
Digits == <<"0", "1", "2", "3", "4", "5", "6", "7", "8", "9">>
IsDigit(c) == \E d \in 1..10 : Digits[d] = c
DigitVal(c) == (CHOOSE d \in 1..10 : Digits[d] = c) - 1

RECURSIVE Decimal(_)
Decimal(p) ==
  IF p = <<>> THEN 0
  ELSE 10 * Decimal(SubSeq(p, 1, Len(p) - 1)) + DigitVal(p[Len(p)])

\* the digits of 1<<32 - 1, the largest value of bit size 32
MaxUint32 == <<"4", "2", "9", "4", "9", "6", "7", "2", "9", "5">>

RECURSIVE StripZeros(_)
StripZeros(p) ==
  IF Len(p) > 1 /\ Head(p) = "0" THEN StripZeros(Tail(p)) ELSE p

\* a <= b for digit runs of equal length
RECURSIVE DigitsLeq(_, _)
DigitsLeq(a, b) ==
  IF a = <<>> THEN TRUE
  ELSE IF DigitVal(Head(a)) # DigitVal(Head(b))
       THEN DigitVal(Head(a)) < DigitVal(Head(b))
       ELSE DigitsLeq(Tail(a), Tail(b))

ParseUintOK(p) ==
  /\ p # <<>>
  /\ \A i \in 1..Len(p) : IsDigit(p[i])
  /\ LET d == StripZeros(p)
     IN  \/ Len(d) < Len(MaxUint32)
         \/ Len(d) = Len(MaxUint32) /\ DigitsLeq(d, MaxUint32)

ParseUint(p) == IF ParseUintOK(p) THEN Decimal(p) ELSE 0

JSONList(seq) == [i \in 1..Len(seq) |-> ToJSON(seq[i])]

----------------------------------------------------------------------------
(* Responses: c.JSON(status, gin.H{...}) *)

NoCount == 0 - 1

\* status, the "data" member as a list of students, and the "count" member
Response(status, data, count) ==
  [status |-> status, data |-> data, count |-> count]

Error(status) == Response(status, <<>>, NoCount)

\* a handler between its First call and its write: the path id and the
\* student that First loaded
Handler(op, id, student) == [op |-> op, id |-> id, student |-> student]

----------------------------------------------------------------------------
(* Handlers.  ioerr says that the database call of the step fails for a    *)
(* reason of its own (connection, disk).  What a handler answers and what  *)
(* it leaves in the table is an operator of the state it runs in; the      *)
(* action applies it.                                                      *)

\* GET /students
GetAllStudentsDo(tbl, ioerr) ==
  IF ioerr THEN Error(500)
  ELSE LET found == FindAll(tbl)
       IN  Response(200, JSONList(found), Len(found))

GetAllStudents(ioerr) ==
  /\ GetAllStudentsDo(students, ioerr).status \in {200, 500}
  /\ UNCHANGED vars

\* GET /students/:id
GetStudentByIDDo(tbl, p, ioerr) ==
  IF ~ParseUintOK(p) THEN Error(400)
  ELSE IF ioerr \/ ~FirstFound(tbl, ParseUint(p)) THEN Error(404)
  ELSE Response(200, <<ToJSON(First(tbl, ParseUint(p)))>>, NoCount)

GetStudentByID(p, ioerr) ==
  /\ GetStudentByIDDo(students, p, ioerr).status \in {200, 400, 404}
  /\ UNCHANGED vars

\* POST /students with the body stored before it is validated
CreateStudentDoStoreFirst(tbl, seq, t, body, ioerr) ==
  LET res == Create(tbl, seq, FromJSON(body), t)
  IN  IF ioerr \/ res.err
      THEN [resp |-> Error(500), tbl |-> tbl, seq |-> seq]
      ELSE IF ~ShouldBindJSON(body)
      THEN [resp |-> Error(400), tbl |-> res.tbl, seq |-> res.seq]
      ELSE [resp |-> Response(201, <<ToJSON(res.student)>>, NoCount),
            tbl |-> res.tbl, seq |-> res.seq]

\* POST /students: the response, the table and the AUTOINCREMENT counter
CreateStudentDo(tbl, seq, t, body, ioerr) ==
  LET res == Create(tbl, seq, FromJSON(body), t)
  IN  IF ~ShouldBindJSON(body)
      THEN [resp |-> Error(400), tbl |-> tbl, seq |-> seq]
      ELSE IF ioerr \/ res.err
      THEN [resp |-> Error(500), tbl |-> tbl, seq |-> seq]
      ELSE [resp |-> Response(201, <<ToJSON(res.student)>>, NoCount),
            tbl |-> res.tbl, seq |-> res.seq]

CreateStudent(body, ioerr) ==
  LET do == CreateStudentDo(students, sqlite_sequence, now, body, ioerr)
  IN  /\ students' = do.tbl
      /\ sqlite_sequence' = do.seq
      /\ UNCHANGED <<now, inflight, deletedOK, req>>

\* the lookup with the error of strconv.ParseUint dropped
FirstDoNoParseError(tbl, p, ioerr) ==
  IF ioerr \/ ~FirstFound(tbl, ParseUint(p))
  THEN [resp |-> Error(404), found |-> FALSE]
  ELSE [resp |-> Error(0), found |-> TRUE]

\* PUT and DELETE /students/:id, up to and including db.First: an error
\* response, or the student found
FirstDo(tbl, p, ioerr) ==
  IF ~ParseUintOK(p) THEN [resp |-> Error(400), found |-> FALSE]
  ELSE IF ioerr \/ ~FirstFound(tbl, ParseUint(p))
  THEN [resp |-> Error(404), found |-> FALSE]
  ELSE [resp |-> Error(0), found |-> TRUE]

UpdateStudentFirst(p, ioerr) ==
  /\ BagCardinality(inflight) < MaxInflight
  /\ inflight' = IF FirstDo(students, p, ioerr).found
                 THEN inflight (+) SetToBag({Handler("update", ParseUint(p),
                                       First(students, ParseUint(p)))})
                 ELSE inflight
  /\ UNCHANGED <<students, sqlite_sequence, now, deletedOK, req>>

\* PUT /students/:id, from ShouldBindJSON to the response
UpdateStudentDo(tbl, student, t, body, ioerr) ==
  LET res == Updates(tbl, student, FromJSON(body), t)
  IN  IF ~ShouldBindJSON(body)
      THEN [resp |-> Error(400), tbl |-> tbl]
      ELSE IF ioerr \/ res.err
      THEN [resp |-> Error(500), tbl |-> tbl]
      ELSE [resp |-> Response(200, <<ToJSON(res.student)>>, NoCount),
            tbl |-> res.tbl]

UpdateStudentUpdates(h, body, ioerr) ==
  /\ h.op = "update"
  /\ students' = UpdateStudentDo(students, h.student, now, body, ioerr).tbl
  /\ inflight' = inflight (-) SetToBag({h})
  /\ UNCHANGED <<sqlite_sequence, now, deletedOK, req>>

DeleteStudentFirst(p, ioerr) ==
  /\ BagCardinality(inflight) < MaxInflight
  /\ inflight' = IF FirstDo(students, p, ioerr).found
                 THEN inflight (+) SetToBag({Handler("delete", ParseUint(p),
                                       First(students, ParseUint(p)))})
                 ELSE inflight
  /\ UNCHANGED <<students, sqlite_sequence, now, deletedOK, req>>

\* DELETE /students/:id, from db.Delete to the response
DeleteStudentDo(tbl, student, t, ioerr) ==
  IF ioerr THEN [resp |-> Error(500), tbl |-> tbl]
  ELSE [resp |-> Error(200), tbl |-> Delete(tbl, student, t)]

\* deletedOK remembers the path ids for which a DELETE was answered 200
DeleteStudentDelete(h, ioerr) ==
  LET do == DeleteStudentDo(students, h.student, now, ioerr)
  IN  /\ h.op = "delete"
      /\ students' = do.tbl
      /\ deletedOK' = IF do.resp.status = 200
                      THEN deletedOK \cup {h.id} ELSE deletedOK
      /\ inflight' = inflight (-) SetToBag({h})
      /\ UNCHANGED <<sqlite_sequence, now, req>>

\* PUT /students/:id when no other request runs between its database calls
UpdateStudentRun(tbl, p, t, body, ioerr1, ioerr2) ==
  IF FirstDo(tbl, p, ioerr1).found
  THEN UpdateStudentDo(tbl, First(tbl, ParseUint(p)), t, body, ioerr2)
  ELSE [resp |-> FirstDo(tbl, p, ioerr1).resp, tbl |-> tbl]

\* DELETE /students/:id when no other request runs between its database calls
DeleteStudentRun(tbl, p, t, ioerr1, ioerr2) ==
  IF FirstDo(tbl, p, ioerr1).found
  THEN DeleteStudentDo(tbl, First(tbl, ParseUint(p)), t, ioerr2)
  ELSE [resp |-> FirstDo(tbl, p, ioerr1).resp, tbl |-> tbl]

\* GET /students/search
SearchStudentsDo(tbl, url, ioerr) ==
  IF ioerr THEN Error(500)
  ELSE LET found == Search(tbl, cQuery(url, "name"), cQuery(url, "major"),
                           cQuery(url, "grade"))
       IN  Response(200, JSONList(found), Len(found))

SearchStudents(url, ioerr) ==
  /\ SearchStudentsDo(students, url, ioerr).status \in {200, 500}
  /\ UNCHANGED vars

\* time passes
Tick ==
  /\ now < MaxClock
  /\ now' = now + 1
  /\ UNCHANGED <<students, sqlite_sequence, inflight, deletedOK, req>>

----------------------------------------------------------------------------
(* Requests the clients send *)

E1 == <<"a", "@", "x">>
E2 == <<"b", "@", "x">>
P1 == <<"1", "3", "8">>
P2 == <<"1", "3", "9">>
N1 == <<"A", "b">>
N2 == <<"a", "_">>
M1 == <<"C", "S">>
M2 == <<"E", "E">>
G1 == <<"2", "3">>
G2 == <<"2", "4">>

\* a timestamp a client writes into a body: an instant before the service
\* started, which the clock of the model never shows
ClientTime == 0 - 1

Body(id, name, age, gender, email, phone, major, grade, c, u) ==
  [ID |-> id, Name |-> name, Age |-> age, Gender |-> gender, Email |-> email,
   Phone |-> phone, Major |-> major, Grade |-> grade,
   CreatedAt |-> c, UpdatedAt |-> u]

\* the members a client may leave out of a body
BusinessFields == {"Name", "Age", "Gender", "Email", "Phone", "Major", "Grade"}

\* a body member left out reads as the zero value of its type
Supplied(body, f) == body[f] # ToJSON(ZeroStudent)[f]

\* bodies that carry every business field; some also carry an id
IdBodies ==
  {Body(id, N1, 20, "nan", email, P1, M1, G1, ZeroTime, ZeroTime) :
     id \in {0, 1, 2}, email \in {E1, E2}}

\* bodies that also carry created_at and updated_at
TimeBodies ==
  {Body(0, N1, 20, "nan", E1, P1, M1, G1, ClientTime, ClientTime)}

\* bodies that carry a subset of the business fields, each with a valid value
PartialBodies ==
  {Body(0, NoStr, 21, "", NoStr, NoStr, NoStr, NoStr, ZeroTime, ZeroTime),
   Body(0, N2, 21, "", NoStr, NoStr, NoStr, NoStr, ZeroTime, ZeroTime),
   Body(0, N2, 21, "nv", NoStr, P2, M2, G2, ZeroTime, ZeroTime),
   Body(0, NoStr, 0, "", NoStr, NoStr, NoStr, NoStr, ZeroTime, ZeroTime)}


\* bodies of two students, and a body that is no valid student
CoreBodies ==
  {Body(0, N1, 20, "nan", email, P1, M1, G1, ZeroTime, ZeroTime) :
     email \in {E1, E2}}
  \cup {Body(0, NoStr, 21, "", NoStr, NoStr, NoStr, NoStr, ZeroTime, ZeroTime)}

\* bodies that differ from one another in one business field at a time
FieldBodies ==
  {Body(0, N1, 20, "nan", email, P1, M1, G1, ZeroTime, ZeroTime) :
     email \in {E1, E2}}
  \cup {Body(0, N2, 20, "nan", E1, P1, M1, G1, ZeroTime, ZeroTime),
        Body(0, N1, 21, "nan", E1, P1, M1, G1, ZeroTime, ZeroTime),
        Body(0, N1, 20, "nv", E1, P1, M1, G1, ZeroTime, ZeroTime),
        Body(0, N1, 20, "nan", E1, P2, M1, G1, ZeroTime, ZeroTime),
        Body(0, N1, 20, "nan", E1, P1, M2, G1, ZeroTime, ZeroTime),
        Body(0, N1, 20, "nan", E1, P1, M1, G2, ZeroTime, ZeroTime)}
  \cup PartialBodies

\* every body above
Bodies == IdBodies \cup TimeBodies \cup FieldBodies

\* bodies for records that differ in what search looks at
SearchBodies ==
  {Body(0, N1, 20, "nan", E1, P1, M1, G1, ZeroTime, ZeroTime),
   Body(0, N2, 21, "nv", E2, P2, M2, G2, ZeroTime, ZeroTime)}

\* the path parameters the requests of the specifications carry
StepParams == {<<"1">>, <<"2">>, <<"x">>}

\* path parameters: ids, text that is no number, a signed number, 1<<32
Params == {<<"1">>, <<"2">>, <<"3">>, <<"x">>, <<"-", "1">>,
           <<"4", "2", "9", "4", "9", "6", "7", "2", "9", "6">>}

\* strconv.FormatUint(id, 10), as a client writes an id into a path
RECURSIVE FormatUint(_)
FormatUint(n) ==
  IF n < 10 THEN <<Digits[n + 1]>>
  ELSE FormatUint(n \div 10) \o <<Digits[(n % 10) + 1]>>

Unset == [set |-> FALSE, val |-> NoStr]
Given(v) == [set |-> TRUE, val |-> v]
Url(n, m, g) == [name |-> n, major |-> m, grade |-> g]

\* search URLs: parameters left out, given empty, and given with text
Urls ==
  {Url(n, m, g) :
     n \in {Unset, Given(NoStr), Given(<<"a">>), Given(<<"B">>), Given(<<"_">>),
            Given(<<"%">>)},
     m \in {Unset, Given(NoStr), Given(<<"s">>), Given(<<"_", "e">>)},
     g \in {Unset, Given(NoStr), Given(G1)}}

\* the search URLs the requests of the specifications carry
StepUrls ==
  {Url(Unset, Unset, Unset), Url(Given(<<"a">>), Unset, Given(NoStr)),
   Url(Given(<<"_">>), Given(<<"s">>), Given(G1))}

----------------------------------------------------------------------------
(* One request, statement by statement.  req is the request a handler is    *)
(* working on: its inputs, its position pc in the handler, the student the  *)
(* handler holds, the number of c.JSON calls made (writes) with the last    *)
(* status, and late: whether a database call was made after a c.JSON call.  *)

Req(op, pc, p, body, url, student, writes, status, late) ==
  [op |-> op, pc |-> pc, p |-> p, body |-> body, url |-> url,
   student |-> student, writes |-> writes, status |-> status, late |-> late]

\* no request is being followed
Idle ==
  Req("", "idle", <<>>, ToJSON(ZeroStudent), Url(Unset, Unset, Unset),
      ZeroStudent, 0, 0, FALSE)

\* the first statement of each handler
Entry(op) ==
  CASE op = "list" -> "Find"
    [] op = "search" -> "Search"
    [] op = "create" -> "Bind"
    [] OTHER -> "ParseUint"

\* the router hands a request to its handler
Arrive(op, p, body, url) ==
  /\ req.pc = "idle"
  /\ req' = Req(op, Entry(op), p, body, url, ZeroStudent, 0, 0, FALSE)
  /\ UNCHANGED <<students, sqlite_sequence, now, inflight, deletedOK>>

\* c.JSON(status, ...) followed by return
Respond(r, status) ==
  [r EXCEPT !.writes = @ + 1, !.status = status, !.pc = "return"]

\* a database call: late remembers a call made after a response was written
Call(r) == [r EXCEPT !.late = @ \/ r.writes > 0]

\* id, err := strconv.ParseUint(c.Param("id"), 10, 32); if err != nil {...}
ParseUintStep ==
  /\ req.pc = "ParseUint"
  /\ req' = IF ~ParseUintOK(req.p) THEN Respond(req, 400)
            ELSE [req EXCEPT !.pc = "First"]
  /\ UNCHANGED <<students, sqlite_sequence, now, inflight, deletedOK>>

\* result := db.First(&student, uint(id)); if result.Error != nil {...};
\* GetStudentByID then answers 200
FirstStep(ioerr) ==
  /\ req.pc = "First"
  /\ req' = IF ioerr \/ ~FirstFound(students, ParseUint(req.p))
            THEN Respond(Call(req), 404)
            ELSE LET r == [Call(req) EXCEPT
                             !.student = First(students, ParseUint(req.p))]
                 IN  CASE req.op = "get" -> Respond(r, 200)
                       [] req.op = "update" -> [r EXCEPT !.pc = "Bind"]
                       [] OTHER -> [r EXCEPT !.pc = "Delete"]
  /\ UNCHANGED <<students, sqlite_sequence, now, inflight, deletedOK>>

\* ShouldBindJSON with its c.JSON(400) and a return statement missing
BindStepNoReturn ==
  /\ req.pc = "Bind"
  /\ req' = [(IF ~ShouldBindJSON(req.body) THEN Respond(req, 400) ELSE req)
               EXCEPT !.pc = IF req.op = "create" THEN "Create" ELSE "Updates"]
  /\ UNCHANGED <<students, sqlite_sequence, now, inflight, deletedOK>>

\* if err := c.ShouldBindJSON(&student); err != nil {...}
BindStep ==
  /\ req.pc = "Bind"
  /\ req' = IF ~ShouldBindJSON(req.body) THEN Respond(req, 400)
            ELSE [req EXCEPT !.pc = IF req.op = "create" THEN "Create"
                                    ELSE "Updates"]
  /\ UNCHANGED <<students, sqlite_sequence, now, inflight, deletedOK>>

\* result := db.Create(&student); if result.Error != nil {...}; 201
CreateStep(ioerr) ==
  LET res == Create(students, sqlite_sequence, FromJSON(req.body), now)
      ok == ~ioerr /\ ~res.err
  IN  /\ req.pc = "Create"
      /\ students' = IF ok THEN res.tbl ELSE students
      /\ sqlite_sequence' = IF ok THEN res.seq ELSE sqlite_sequence
      /\ req' = IF ok THEN Respond([Call(req) EXCEPT !.student = res.student], 201)
                ELSE Respond(Call(req), 500)
      /\ UNCHANGED <<now, inflight, deletedOK>>

\* result = db.Model(&student).Updates(updateData); if result.Error ...; 200
UpdatesStep(ioerr) ==
  LET res == Updates(students, req.student, FromJSON(req.body), now)
      ok == ~ioerr /\ ~res.err
  IN  /\ req.pc = "Updates"
      /\ students' = IF ok THEN res.tbl ELSE students
      /\ req' = IF ok THEN Respond([Call(req) EXCEPT !.student = res.student], 200)
                ELSE Respond(Call(req), 500)
      /\ UNCHANGED <<sqlite_sequence, now, inflight, deletedOK>>

\* result = db.Delete(&student); if result.Error != nil {...}; 200
DeleteStep(ioerr) ==
  /\ req.pc = "Delete"
  /\ students' = IF ioerr THEN students ELSE Delete(students, req.student, now)
  /\ req' = Respond(Call(req), IF ioerr THEN 500 ELSE 200)
  /\ UNCHANGED <<sqlite_sequence, now, inflight, deletedOK>>

\* result := db.Where("deleted_at IS NULL").Find(&students); ...; 200
FindStep(ioerr) ==
  /\ req.pc = "Find"
  /\ req' = Respond(Call(req), GetAllStudentsDo(students, ioerr).status)
  /\ UNCHANGED <<students, sqlite_sequence, now, inflight, deletedOK>>

\* c.Query three times, the Where clauses, query.Find(&students); ...; 200
SearchStep(ioerr) ==
  /\ req.pc = "Search"
  /\ req' = Respond(Call(req), SearchStudentsDo(students, req.url, ioerr).status)
  /\ UNCHANGED <<students, sqlite_sequence, now, inflight, deletedOK>>

\* the handler returns and the response goes out
ReturnStep ==
  /\ req.pc = "return"
  /\ req' = Idle
  /\ UNCHANGED <<students, sqlite_sequence, now, inflight, deletedOK>>

\* the next statement of the handler that is working on req
HandlerStep ==
  \/ ParseUintStep
  \/ \E ioerr \in BOOLEAN : FirstStep(ioerr)
  \/ BindStep
  \/ \E ioerr \in BOOLEAN : CreateStep(ioerr)
  \/ \E ioerr \in BOOLEAN : UpdatesStep(ioerr)
  \/ \E ioerr \in BOOLEAN : DeleteStep(ioerr)
  \/ \E ioerr \in BOOLEAN : FindStep(ioerr)
  \/ \E ioerr \in BOOLEAN : SearchStep(ioerr)

----------------------------------------------------------------------------
(* Specification *)

Init ==
  /\ students = <<>>
  /\ sqlite_sequence = 0
  /\ now = 1
  /\ inflight = EmptyBag
  /\ deletedOK = {}
  /\ req = Idle

\* one step of the service under requests drawn from B (bodies), P (path
\* parameters) and U (search URLs)
Step(B, P, U) ==
  \/ \E ioerr \in BOOLEAN : GetAllStudents(ioerr)
  \/ \E p \in P, ioerr \in BOOLEAN : GetStudentByID(p, ioerr)
  \/ \E body \in B, ioerr \in BOOLEAN : CreateStudent(body, ioerr)
  \/ \E p \in P, ioerr \in BOOLEAN : UpdateStudentFirst(p, ioerr)
  \/ \E h \in BagToSet(inflight), body \in B, ioerr \in BOOLEAN :
        UpdateStudentUpdates(h, body, ioerr)
  \/ \E p \in P, ioerr \in BOOLEAN : DeleteStudentFirst(p, ioerr)
  \/ \E h \in BagToSet(inflight), ioerr \in BOOLEAN :
        DeleteStudentDelete(h, ioerr)
  \/ \E url \in U, ioerr \in BOOLEAN : SearchStudents(url, ioerr)
  \/ Tick

\* requests about two students, without ids or timestamps in the bodies
Next == Step(CoreBodies, StepParams, StepUrls)
Spec == Init /\ [][Next]_vars

\* requests whose bodies also carry ids
NextIds == Step(IdBodies, StepParams, StepUrls)
SpecIds == Init /\ [][NextIds]_vars

\* requests that create and search records of different names, majors and
\* grades
NextSearch == Step(SearchBodies, StepParams, StepUrls)
SpecSearch == Init /\ [][NextSearch]_vars

\* requests about two students of which the first is looked up, updated and
\* deleted, next to requests that validation rejects
OneParams == {<<"1">>, <<"x">>}
NextOne == Step(CoreBodies, OneParams, StepUrls)
SpecOne == Init /\ [][NextOne]_vars

\* the service under creates, deletes and reads only, with bodies that may
\* carry ids
NextCreateDelete ==
  \/ \E ioerr \in BOOLEAN : GetAllStudents(ioerr)
  \/ \E p \in StepParams, ioerr \in BOOLEAN : GetStudentByID(p, ioerr)
  \/ \E body \in IdBodies, ioerr \in BOOLEAN : CreateStudent(body, ioerr)
  \/ \E p \in StepParams, ioerr \in BOOLEAN : DeleteStudentFirst(p, ioerr)
  \/ \E h \in BagToSet(inflight), ioerr \in BOOLEAN :
        DeleteStudentDelete(h, ioerr)
  \/ \E url \in StepUrls, ioerr \in BOOLEAN : SearchStudents(url, ioerr)
  \/ Tick
SpecCreateDelete == Init /\ [][NextCreateDelete]_vars

\* one request at a time, followed through the statements of its handler;
\* a handler that has a next statement gets to run it
NextHandlers ==
  \/ \E op \in {"list", "search", "create", "get", "update", "delete"} :
     \E p \in OneParams, body \in CoreBodies, url \in StepUrls :
        Arrive(op, IF op \in {"get", "update", "delete"} THEN p ELSE <<>>,
               IF op \in {"create", "update"} THEN body ELSE ToJSON(ZeroStudent),
               IF op = "search" THEN url ELSE Url(Unset, Unset, Unset))
  \/ HandlerStep
  \/ ReturnStep
  \/ Tick
SpecHandlers == Init /\ [][NextHandlers]_vars /\ WF_vars(HandlerStep)

----------------------------------------------------------------------------
(* Properties *)

DataOf(r) == {r.data[i] : i \in 1..Len(r.data)}
IdsOf(r) == {d.ID : d \in DataOf(r)}
Business(s) == [f \in BusinessFields |-> s[f]]
LiveRows == {r \in Rows(students) : Live(r)}
DeletedRows == {r \in Rows(students) : ~Live(r)}

\* C1: once DELETE /students/:id was answered 200 for an id, GET
\* /students/:id for that id answers 404, and no result of GET /students or
\* of GET /students/search, whatever the filters, holds that id
C1_DeletedIdStaysGone ==
  \A id \in deletedOK :
     /\ GetStudentByIDDo(students, FormatUint(id), FALSE).status = 404
     /\ id \notin IdsOf(GetAllStudentsDo(students, FALSE))
     /\ \A url \in Urls : id \notin IdsOf(SearchStudentsDo(students, url, FALSE))

\* C2: in every reachable state, whatever requests are between their two
\* database calls, no two live records hold the same email
C2_OneLiveRecordPerEmail ==
  \A i, j \in 1..Len(students) :
     (i # j /\ Live(students[i]) /\ Live(students[j]))
        => students[i].Email # students[j].Email

\* two live records while an update that writes an email is between its
\* lookup and its write, and a create with a live record's email is refused
C2_Witness ==
  /\ Cardinality(LiveRows) = 2
  /\ \E h \in BagToSet(inflight) : h.op = "update"
  /\ \E body \in CoreBodies :
        /\ \E r \in LiveRows : r.Email = body.Email
        /\ CreateStudentDo(students, sqlite_sequence, now, body, FALSE).resp.status
             # 201

\* C3: a create whose email is the email of a live record is answered 400
\* and stores nothing (the insert that lands second of two concurrent creates
\* meets the first one's record in the table in just this way)
C3_DuplicateEmailIs400 ==
  \A body \in Bodies :
     (ShouldBindJSON(body) /\ \E r \in LiveRows : r.Email = body.Email)
        => LET do == CreateStudentDo(students, sqlite_sequence, now, body, FALSE)
           IN  do.resp.status = 400 /\ do.tbl = students

\* C4: once a record is soft-deleted, a create with valid input and that
\* record's email is answered 201 and stores a new live record under a new id
C4_DeletedEmailIsFree ==
  \A body \in Bodies :
     ( /\ ShouldBindJSON(body)
       /\ ~Supplied(body, "ID")
       /\ \E r \in DeletedRows : r.Email = body.Email
       /\ \A r \in LiveRows : r.Email # body.Email )
        => LET do == CreateStudentDo(students, sqlite_sequence, now, body, FALSE)
           IN  /\ do.resp.status = 201
               /\ Len(do.tbl) = Len(students) + 1
               /\ Live(do.tbl[Len(do.tbl)])
               /\ do.tbl[Len(do.tbl)].Email = body.Email
               /\ \A r \in Rows(students) : r.ID # do.tbl[Len(do.tbl)].ID

\* C5: a PUT on a live record with a subset of the business fields, each
\* valid, is answered 200 and changes exactly the supplied fields
C5_PartialUpdate ==
  \A i \in 1..Len(students) : \A body \in PartialBodies :
     Live(students[i])
        => LET do == UpdateStudentDo(students, students[i], now, body, FALSE)
           IN  /\ do.resp.status = 200
               /\ \A f \in BusinessFields :
                     do.tbl[i][f] = IF Supplied(body, f) THEN body[f]
                                    ELSE students[i][f]

\* C6: a create that is answered 201, followed by GET with the id it
\* returned, returns the name, age, gender, email, phone, major and grade of
\* the input
C6_CreateThenGet ==
  \A body \in Bodies :
     LET do == CreateStudentDo(students, sqlite_sequence, now, body, FALSE)
     IN  do.resp.status = 201
           => LET get == GetStudentByIDDo(do.tbl,
                                          FormatUint(do.resp.data[1].ID), FALSE)
              IN  /\ get.status = 200
                  /\ Business(get.data[1]) = Business(body)

\* a record is stored next to another one, and a body of other field values
\* can be created
C6_Witness ==
  /\ Cardinality(LiveRows) >= 1
  /\ \E body \in FieldBodies :
        /\ \A r \in Rows(students) : Business(r) # Business(body)
        /\ CreateStudentDo(students, sqlite_sequence, now, body, FALSE).resp.status
             = 201

\* C7: a record keeps the id it was created with: no request, whatever its
\* body, changes the id of a record
C7_IdNeverChanges ==
  [][\A i \in 1..Len(students) : students'[i].ID = students[i].ID]_vars

\* C8: on create the record's id, created_at and updated_at are assigned by
\* the store, whatever the body carries for them
C8_SystemFieldsFromStore ==
  \A body \in Bodies :
     LET do == CreateStudentDo(students, sqlite_sequence, now, body, FALSE)
         row == do.tbl[Len(do.tbl)]
     IN  do.resp.status = 201
           => /\ row.ID = NextRowid(students, sqlite_sequence)
              /\ row.CreatedAt = now
              /\ row.UpdatedAt = now

\* what the filters of a search ask for: a filter that is left out or empty
\* asks for nothing
Fold(s) == [i \in 1..Len(s) |-> Lower(s[i])]
Contains(s, f) ==
  \E k \in 0..(Len(s) - Len(f)) : \A j \in 1..Len(f) : Fold(s)[k + j] = Fold(f)[j]
Asked(url, key) == url[key].set /\ url[key].val # NoStr
Matches(r, url) ==
  /\ Asked(url, "name") => Contains(r.Name, url.name.val)
  /\ Asked(url, "major") => Contains(r.Major, url.major.val)
  /\ Asked(url, "grade") => r.Grade = url.grade.val

\* C9: search returns exactly the live records whose name contains the name
\* filter and whose major contains the major filter, both without regard to
\* case, and whose grade equals the grade filter
C9_SearchIsExact ==
  \A url \in Urls :
     LET res == SearchStudentsDo(students, url, FALSE)
     IN  /\ res.status = 200
         /\ DataOf(res) = {ToJSON(r) : r \in {x \in LiveRows : Matches(x, url)}}

\* C10: search with every filter left out or empty returns the records and
\* the count of list, and is no error
BlankUrls ==
  {url \in Urls : \A key \in {"name", "major", "grade"} : ~Asked(url, key)}

C10_BlankSearchIsList ==
  \A url \in BlankUrls :
     LET res == SearchStudentsDo(students, url, FALSE)
         all == GetAllStudentsDo(students, FALSE)
     IN  /\ res.status = 200
         /\ DataOf(res) = DataOf(all)
         /\ res.count = all.count

\* list returns a record while another one is soft-deleted, and some blank
\* URL carries an empty filter
C10_Witness ==
  /\ GetAllStudentsDo(students, FALSE).count >= 1
  /\ DeletedRows # {}
  /\ \E url \in BlankUrls : url.grade.set /\ url.name.set

\* the soft-deleted records, by what the table stores for them
SoftDeleted == {r \in Rows(students) : r.DeletedAt # ZeroTime}

\* C11: a DELETE on the id of a record that is already soft-deleted is
\* answered 404 and changes nothing in the table, the stored deleted_at
\* included
C11_DeleteTwiceIsNotFound ==
  \A r \in SoftDeleted : \A ioerr1, ioerr2 \in BOOLEAN :
     LET do == DeleteStudentRun(students, FormatUint(r.ID), now, ioerr1, ioerr2)
     IN  do.resp.status = 404 /\ do.tbl = students

\* a record was soft-deleted at an earlier time than now, next to a live one
C11_Witness ==
  /\ \E r \in SoftDeleted : r.DeletedAt < now
  /\ \E r \in Rows(students) : r.DeletedAt = ZeroTime

\* C12: a PUT that sets a live record's email to the email of another live
\* record is answered 400 and leaves the table as it is
C12_UpdateEmailCollisionIs400 ==
  \A i, j \in 1..Len(students) : \A body \in Bodies :
     ( /\ i # j /\ Live(students[i]) /\ Live(students[j])
       /\ ShouldBindJSON(body) /\ ~Supplied(body, "ID")
       /\ body.Email = students[j].Email )
        => LET do == UpdateStudentRun(students, FormatUint(students[i].ID), now,
                                      body, FALSE, FALSE)
           IN  do.resp.status = 400 /\ do.tbl = students

\* bodies of an update that supply an email: alone, and with every other
\* business field
EmailBodies ==
  {Body(0, NoStr, 0, "", email, NoStr, NoStr, NoStr, ZeroTime, ZeroTime) :
     email \in {E1, E2}}
  \cup {Body(0, N2, 21, "nv", email, P2, M2, G2, ZeroTime, ZeroTime) :
          email \in {E1, E2}}

\* every field a body supplies has a value its field allows
SuppliedFieldsValid(body) ==
  /\ Supplied(body, "Age") => (body.Age >= 1 /\ body.Age <= 150)
  /\ Supplied(body, "Gender") => body.Gender \in Genders
  /\ Supplied(body, "Email") => IsEmail(body.Email)

\* C13: a PUT on a live record whose body supplies the record's own current
\* email is answered 200 and the record keeps that email
C13_OwnEmailIsNoCollision ==
  \A i \in 1..Len(students) : \A body \in EmailBodies :
     (Live(students[i]) /\ body.Email = students[i].Email)
        => LET do == UpdateStudentRun(students, FormatUint(students[i].ID), now,
                                      body, FALSE, FALSE)
           IN  /\ do.resp.status = 200
               /\ do.tbl[i].Email = students[i].Email
               /\ Live(do.tbl[i])

\* C14: a storage call that fails for a reason of its own is answered 500 in
\* list, search, create, get, update and delete, never 404 or 400; and 404 is
\* answered only when no live record has the requested id
C14_StorageFailureIs500 ==
  /\ GetAllStudentsDo(students, TRUE).status = 500
  /\ \A url \in Urls : SearchStudentsDo(students, url, TRUE).status = 500
  /\ \A body \in Bodies :
        ShouldBindJSON(body)
          => CreateStudentDo(students, sqlite_sequence, now, body, TRUE).resp.status
               = 500
  /\ \A p \in Params :
        (ParseUintOK(p) /\ FirstFound(students, ParseUint(p)))
          => /\ GetStudentByIDDo(students, p, TRUE).status = 500
             /\ GetStudentByIDDo(students, p, FALSE).status # 404
             /\ \A body \in Bodies : \A e1, e2 \in BOOLEAN :
                   LET do == UpdateStudentRun(students, p, now, body, e1, e2)
                   IN  /\ do.resp.status # 404
                       /\ (e1 \/ (e2 /\ ShouldBindJSON(body)))
                             => do.resp.status = 500
             /\ \A e1, e2 \in BOOLEAN :
                   LET do == DeleteStudentRun(students, p, now, e1, e2)
                   IN  /\ do.resp.status # 404
                       /\ (e1 \/ e2) => do.resp.status = 500

\* an email no request of the specifications stores
E3 == <<"c", "@", "x">>

\* valid bodies but for the age, at and around the bounds of the age range
AgeBodies ==
  {Body(0, N1, age, "nan", E3, P1, M1, G1, ZeroTime, ZeroTime) :
     age \in {0 - 1, 0, 1, 2, 149, 150, 151}}

\* a valid body with one business field left out or empty
Without(body, f) == [body EXCEPT ![f] = ToJSON(ZeroStudent)[f]]

\* bodies that break one rule each: a field left out, a gender outside the
\* enum, an email of no valid shape, an age outside the range
InvalidBodies ==
  {Without(Body(0, N1, 20, "nan", E3, P1, M1, G1, ZeroTime, ZeroTime), f) :
     f \in BusinessFields}
  \cup {Body(0, N1, 20, gender, E3, P1, M1, G1, ZeroTime, ZeroTime) :
          gender \in {"x", "NAN"}}
  \cup {Body(0, N1, 20, "nan", email, P1, M1, G1, ZeroTime, ZeroTime) :
          email \in {<<"a", "b">>, <<"@", "x">>, <<"a", "@">>,
                     <<"a", "@", "@", "x">>}}
  \cup {Body(0, N1, 151, "nan", E3, P1, M1, G1, ZeroTime, ZeroTime)}

\* C15: whenever a create or an update is answered 400, the table (every
\* field of every record, updated_at included) and the id counter are the
\* same after the request as before it
C15_RejectedNeverStored ==
  \A body \in InvalidBodies \cup PartialBodies \cup CoreBodies : \A e \in BOOLEAN :
     /\ LET do == CreateStudentDo(students, sqlite_sequence, now, body, e)
        IN  do.resp.status = 400
              => (do.tbl = students /\ do.seq = sqlite_sequence)
     /\ \A p \in StepParams :
           LET do == UpdateStudentRun(students, p, now, body, e, e)
           IN  do.resp.status = 400 => do.tbl = students
     /\ \A h \in BagToSet(inflight) :
           h.op = "update"
             => LET do == UpdateStudentDo(students, h.student, now, body, e)
                IN  do.resp.status = 400 => do.tbl = students

\* a record last written at an earlier time than now, an update between its
\* lookup and its write, and bodies that are answered 400 on create and on
\* that update
C15_Witness ==
  /\ \E r \in LiveRows : r.UpdatedAt < now
  /\ \E h \in BagToSet(inflight), body \in InvalidBodies :
        /\ h.op = "update"
        /\ UpdateStudentDo(students, h.student, now, body, FALSE).resp.status = 400
        /\ CreateStudentDo(students, sqlite_sequence, now, body, FALSE).resp.status
             = 400

Long(n) == [i \in 1..n |-> "a"]

\* valid bodies but for one string field that is one character longer than
\* its limit
LongBodies ==
  {[Body(0, N1, 20, "nan", E3, P1, M1, G1, ZeroTime, ZeroTime)
      EXCEPT ![f] = Long(SizeOf[f] + 1)] : f \in DOMAIN SizeOf}

\* C17: a create whose name, phone, major or grade is longer than its limit
\* is answered 400 and stores nothing, and no stored record has a field
\* longer than its limit
C17_LengthLimits ==
  /\ \A body \in LongBodies :
        LET do == CreateStudentDo(students, sqlite_sequence, now, body, FALSE)
        IN  do.resp.status = 400 /\ do.tbl = students
  /\ \A r \in Rows(students) : \A f \in DOMAIN SizeOf : Len(r[f]) <= SizeOf[f]

InvalidPartialBodies ==
  {Body(0, NoStr, 151, "", NoStr, NoStr, NoStr, NoStr, ZeroTime, ZeroTime),
   Body(0, NoStr, 0, "x", NoStr, NoStr, NoStr, NoStr, ZeroTime, ZeroTime),
   Body(0, N2, 151, "nv", E3, P2, M2, G2, ZeroTime, ZeroTime),
   Body(0, N2, 21, "x", E3, P2, M2, G2, ZeroTime, ZeroTime)}

\* C19: a PUT on a live record is answered 400, with the record unchanged,
\* when a field it supplies has an invalid value, and is not rejected when
\* every field it supplies is valid, whatever fields it leaves out
C19_UpdateValidatesSupplied ==
  \A i \in 1..Len(students) : \A body \in PartialBodies \cup InvalidPartialBodies :
     Live(students[i])
        => LET do == UpdateStudentRun(students, FormatUint(students[i].ID), now,
                                      body, FALSE, FALSE)
           IN  IF SuppliedFieldsValid(body)
               THEN do.resp.status # 400
               ELSE do.resp.status = 400 /\ do.tbl = students

\* path parameters that are no unsigned 32-bit decimal number
BadParams == {<<"x">>, <<"-", "1">>, <<"1", ".", "5">>, <<"1", "x">>,
              <<"4", "2", "9", "4", "9", "6", "7", "2", "9", "6">>}

\* path parameters that are one, next to the id each one denotes
GoodParams ==
  {[text |-> <<"0">>, id |-> 0], [text |-> <<"1">>, id |-> 1],
   [text |-> <<"0", "1">>, id |-> 1], [text |-> <<"2">>, id |-> 2],
   [text |-> <<"3">>, id |-> 3], [text |-> <<"1", "0">>, id |-> 10],
   [text |-> <<"2", "1", "4", "7", "4", "8", "3", "6", "4", "7">>,
    id |-> 2147483647]}

\* what GET, PUT and DELETE /students/:id answer to a path parameter and
\* leave in the table
ByIdRuns(p, body, e) ==
  {[resp |-> GetStudentByIDDo(students, p, e), tbl |-> students],
   UpdateStudentRun(students, p, now, body, e, e),
   DeleteStudentRun(students, p, now, e, e)}

C21_UpdateTimestamps ==
  \A i \in 1..Len(students) : \A body \in Bodies :
     Live(students[i])
        => LET do == UpdateStudentRun(students, FormatUint(students[i].ID), now,
                                      body, FALSE, FALSE)
           IN  do.resp.status = 200
                 => /\ do.tbl[i].CreatedAt = students[i].CreatedAt
                    /\ do.tbl[i].UpdatedAt >= students[i].UpdatedAt
                    /\ students[i].UpdatedAt < now
                          => do.tbl[i].UpdatedAt > students[i].UpdatedAt

\* search URLs with and without a name and a major filter
CountUrls ==
  {url \in Urls : url.grade = Unset /\ url.major \in {Unset, Given(<<"s">>)}}

\* C22: GET /students returns exactly the records whose deleted_at is not
\* set, each once, with count the number of records in data; search returns
\* count as the number of records in its data too
C22_ListIsLiveSet ==
  /\ LET all == GetAllStudentsDo(students, FALSE)
     IN  /\ all.status = 200
         /\ DataOf(all)
              = {ToJSON(r) : r \in {x \in Rows(students) : x.DeletedAt = ZeroTime}}
         /\ Cardinality(DataOf(all)) = Len(all.data)
         /\ all.count = Len(all.data)
  /\ \A url \in CountUrls :
        LET res == SearchStudentsDo(students, url, FALSE)
        IN  /\ res.count = Len(res.data)
            /\ Cardinality(DataOf(res)) = Len(res.data)

\* a live record next to a soft-deleted one, and a search that returns some
\* but not all of the listed records
C22_Witness ==
  /\ SoftDeleted # {}
  /\ GetAllStudentsDo(students, FALSE).count >= 1
  /\ \E url \in CountUrls :
        SearchStudentsDo(students, url, FALSE).count
          < GetAllStudentsDo(students, FALSE).count

\* C23: over creates and deletes no record leaves the table or changes its
\* id, and every create answered 201 returns a positive id that no record of
\* the table, soft-deleted ones included, has: the id of the record it stores
C23_IdsNeverReused ==
  [][ /\ Len(students') >= Len(students)
      /\ \A i \in 1..Len(students) : students'[i].ID = students[i].ID
      /\ \A k \in (Len(students) + 1)..Len(students') :
            /\ students'[k].ID > 0
            /\ \A i \in 1..Len(students) : students'[k].ID # students[i].ID
      /\ \A body \in IdBodies :
            LET do == CreateStudentDo(students, sqlite_sequence, now, body, FALSE)
            IN  do.resp.status = 201
                  => /\ do.resp.data[1].ID > 0
                     /\ do.resp.data[1].ID = do.tbl[Len(do.tbl)].ID
                     /\ \A r \in Rows(students) : r.ID # do.resp.data[1].ID
    ]_vars

\* a record was created, under a new id, after another one was soft-deleted,
\* and a body that carries the id of the soft-deleted record is refused
C23_Witness ==
  \E d \in SoftDeleted :
     /\ \E r \in LiveRows : r.CreatedAt >= d.DeletedAt /\ r.ID # d.ID
     /\ \E body \in IdBodies :
           /\ body.ID = d.ID
           /\ CreateStudentDo(students, sqlite_sequence, now, body, FALSE).resp.status
                = 500

\* search URLs whose name or major filter holds the character % or _
WildcardUrls ==
  {url \in Urls :
     \E key \in {"name", "major"} : \E k \in 1..Len(url[key].val) :
        url[key].val[k] \in {"%", "_"}}

\* C24: search takes % and _ in the name and major filters literally: every
\* record it returns for such a filter contains the filter text in that field
C24_WildcardsAreLiteral ==
  \A url \in WildcardUrls :
     \A d \in DataOf(SearchStudentsDo(students, url, FALSE)) :
        /\ Asked(url, "name") => Contains(d.Name, url.name.val)
        /\ Asked(url, "major") => Contains(d.Major, url.major.val)

\* C25: of two DELETE requests on one live id that both passed their lookup,
\* the one that writes second is answered 404 once the first was answered
\* 200, and deleted_at stays as the first one set it
C25_OneDeleteWins ==
  \A h \in BagToSet(inflight) :
     (h.op = "delete" /\ h.id \in deletedOK)
        => LET do == DeleteStudentDo(students, h.student, now, FALSE)
           IN  do.resp.status = 404 /\ do.tbl = students

\* C26: a PUT that passed its lookup is answered 200 only when its field
\* changes are stored in a live record
C26_UpdateAppliedWhen200 ==
  \A h \in BagToSet(inflight) : \A body \in CoreBodies :
     h.op = "update"
        => LET do == UpdateStudentDo(students, h.student, now, body, FALSE)
           IN  do.resp.status = 200
                 => \E r \in Rows(do.tbl) :
                       /\ r.DeletedAt = ZeroTime
                       /\ r.ID = do.resp.data[1].ID
                       /\ Business(r) = Business(do.resp.data[1])
                       /\ r.UpdatedAt = now

\* C27: once deleted_at of a record is set, no step of any request changes
\* a field of it or clears its deleted_at, and GET by its id, list and search
\* do not return it
C27_SoftDeleteIsFinal ==
  [][ /\ \A i \in 1..Len(students) :
            students[i].DeletedAt # ZeroTime
              => (Len(students') >= i /\ students'[i] = students[i])
      /\ \A r \in SoftDeleted :
            /\ GetStudentByIDDo(students, FormatUint(r.ID), FALSE).status = 404
            /\ r.ID \notin IdsOf(GetAllStudentsDo(students, FALSE))
            /\ \A url \in StepUrls :
                  r.ID \notin IdsOf(SearchStudentsDo(students, url, FALSE))
    ]_vars

\* a record is soft-deleted while an update that looked it up when it was
\* live has its write still to make, at a later time than the deletion
C27_Witness ==
  \E r \in SoftDeleted :
     /\ \E h \in BagToSet(inflight) : h.op = "update" /\ h.student.ID = r.ID
     /\ r.DeletedAt < now

\* bodies of an update with and without an id, and one that is rejected
TargetBodies ==
  {Body(id, N2, 21, "nv", E2, P2, M2, G2, ZeroTime, ZeroTime) : id \in {0, 1, 2}}
  \cup {Body(2, NoStr, 21, "", NoStr, NoStr, NoStr, NoStr, ZeroTime, ZeroTime)}

\* C28: a step changes a record only when it completes a PUT or DELETE on
\* that record's id, and only a create adds a record; a PUT or DELETE on an
\* id, whatever its body and outcome, leaves the records of every other id
\* as they are and adds none
C28_OnlyTheTarget ==
  [][ /\ \A i \in 1..Len(students) :
            (Len(students') < i \/ students'[i] # students[i])
              => \E h \in BagToSet(inflight) :
                    /\ h.id = students[i].ID
                    /\ CopiesIn(h, inflight') < CopiesIn(h, inflight)
      /\ Len(students') # Len(students) => inflight' = inflight
      /\ \A h \in BagToSet(inflight) : \A body \in TargetBodies :
            \A e \in BOOLEAN :
               LET do == IF h.op = "update"
                         THEN UpdateStudentDo(students, h.student, now, body, e)
                         ELSE DeleteStudentDo(students, h.student, now, e)
               IN  /\ Len(do.tbl) = Len(students)
                   /\ \A i \in 1..Len(students) :
                         students[i].ID # h.id => do.tbl[i] = students[i]
    ]_vars

\* two live records while a PUT and a DELETE on the id of one of them have
\* their writes still to make
C28_Witness ==
  /\ Cardinality(LiveRows) = 2
  /\ \E r \in LiveRows :
        /\ \E h \in BagToSet(inflight) : h.op = "update" /\ h.id = r.ID
        /\ \E h \in BagToSet(inflight) : h.op = "delete" /\ h.id = r.ID

\* C29: after a PUT answered 200, with no write in between, GET on the same
\* id is answered 200 with the business fields the PUT returned in data
C29_GetAfterPut ==
  \A i \in 1..Len(students) : \A body \in Bodies :
     Live(students[i])
        => LET p == FormatUint(students[i].ID)
               do == UpdateStudentRun(students, p, now, body, FALSE, FALSE)
               get == GetStudentByIDDo(do.tbl, p, FALSE)
           IN  do.resp.status = 200
                 => /\ get.status = 200
                    /\ Business(get.data[1]) = Business(do.resp.data[1])

\* C30: every request is answered exactly once: a handler never makes a
\* second c.JSON call, has made exactly one when it returns and none before,
\* makes no database call after one, and every request that arrived reaches
\* the return of its handler with its one response written
C30_ExactlyOneResponse ==
  /\ [](/\ req.writes <= 1
        /\ ~req.late
        /\ req.pc = "return" => req.writes = 1
        /\ req.pc \notin {"idle", "return"} => req.writes = 0)
  /\ (req.pc # "idle") ~> (req.pc = "return" /\ req.writes = 1)

\* an update returns with 500 after its lookup and its binding went well
\* and its write failed on the email of the other record
C30_Witness ==
  /\ req.op = "update" /\ req.pc = "return" /\ req.status = 500
  /\ Cardinality(LiveRows) = 2
  /\ \E r \in LiveRows : r.ID # req.student.ID /\ r.Email = req.body.Email

====
